---- MODULE Spec2Model ----
(***************************************************************************)
(* Model of binary_neutron_stars/scripts/chirp_mass_scan.py and of the     *)
(* flow builders of dingo/core/nn/nsf.py (dingo).                          *)
(*                                                                         *)
(* Real-valued quantities (chirp masses, times) are exact rationals,       *)
(* written <<numerator, denominator>> in lowest terms with a positive      *)
(* denominator; prior and kernel bounds are integers in an arbitrary unit  *)
(* (the functions modelled are invariant under a change of unit).          *)
(* Floating-point rounding is not modelled.                                *)
(***************************************************************************)
EXTENDS Integers, Sequences, FiniteSets, TLC

VARIABLES
    metadata,             \* model.metadata: chirp-mass prior, kernel, geocent_time prior
    args,                 \* parsed command line
    overlap_factor,       \* overlap_factor handed to get_scan_chirp_masses (a rational)
    time_overlap_factor,  \* overlap_factor handed to get_scan_times (a rational)
    event_file,           \* the EventDataset stored in the file args.event_data
    chirp_masses,         \* main: chirp_masses
    times,                \* main: times
    t_pos,                \* position of the for loop over times (0: not started)
    dt,                   \* main: loop variable dt
    event_dataset,        \* main: event_dataset (the object loaded in this iteration)
    data,                 \* main: data, the buffers of generate_data_for_scan
    samples,              \* main: samples
    theta,                \* main: theta
    ln_prob,              \* the array prior.ln_prob returned at line 247
    log_prior,            \* main: log_prior
    log_likelihoods,      \* main: log_likelihoods
    snrs,                 \* main: snrs
    log_probs,            \* main: log_probs
    trigger,              \* what lines 260-266 print
    theta_out,            \* main: theta_out (None before the first append)
    pickled,              \* content of args.outfile once written (None before)
    appended,             \* history: the table each completed iteration appended
    pool,                 \* worker pool of log_likelihood_multi (num_processes > 1)
    nsf,                  \* nsf.py: one call of a flow builder and what it has built
    pc                    \* position in main

inputVars == <<metadata, args, overlap_factor, time_overlap_factor, event_file>>
gridVars  == <<chirp_masses, times>>
loopVars  == <<t_pos, dt, event_dataset>>
iterVars  == <<data, samples, theta, ln_prob, log_prior, log_likelihoods, snrs,
               log_probs, trigger>>
outVars   == <<theta_out, pickled, appended>>
IdlePool  == [chunks |-> << >>, results |-> << >>, order |-> << >>]
\* no flow builder has been called
IdleNsf   == [pc |-> "idle"]
vars == <<inputVars, gridVars, loopVars, iterVars, outVars, pool, nsf, pc>>

\* Python None for a local that otherwise holds a tuple or an array
None == << >>

----------------------------------------------------------------------------
(* Exact rational arithmetic standing for Python floats.                   *)

Abs(x) == IF x < 0 THEN -x ELSE x

RECURSIVE GCD(_, _)
GCD(a, b) == IF b = 0 THEN a ELSE GCD(b, a % b)

\* n/d in lowest terms, d # 0
Frac(n, d) ==
    LET g == GCD(Abs(n), Abs(d))
        s == IF d < 0 THEN -1 ELSE 1
    IN  <<(s * n) \div g, (s * d) \div g>>

OfInt(n) == <<n, 1>>
RAdd(x, y) == Frac(x[1] * y[2] + y[1] * x[2], x[2] * y[2])
RSub(x, y) == Frac(x[1] * y[2] - y[1] * x[2], x[2] * y[2])
RMul(x, y) == Frac(x[1] * y[1], x[2] * y[2])
RDiv(x, y) == Frac(x[1] * y[2], x[2] * y[1])
RLe(x, y)  == x[1] * y[2] <= y[1] * x[2]
RLt(x, y)  == x[1] * y[2] < y[1] * x[2]

\* math.ceil of a rational
Ceil(x) == -((-x[1]) \div x[2])
\* int() of a rational: truncation toward zero
Trunc(x) == IF x[1] >= 0 THEN x[1] \div x[2] ELSE -((-x[1]) \div x[2])

\* np.linspace with endpoint=False, the spacing being (stop - start)/num
linspace_open(start, stop, num) ==
    [i \in 1..num |->
        RAdd(start, RMul(OfInt(i - 1), RDiv(RSub(stop, start), OfInt(num))))]

\* np.linspace(start, stop, num) for num >= 0 (endpoint included)
linspace(start, stop, num) ==
    IF num = 1 THEN <<start>>
    ELSE [i \in 1..num |->
             RAdd(start, RMul(OfInt(i - 1), RDiv(RSub(stop, start), OfInt(num - 1))))]

----------------------------------------------------------------------------
(* get_scan_chirp_masses, lines 79-93                                      *)

GridCountFloor(prior_range, kernel_range, factor) ==
    Trunc(RMul(RDiv(OfInt(prior_range), OfInt(kernel_range)), factor))

GridCount(prior_range, kernel_range, factor) ==
    Ceil(RMul(RDiv(OfInt(prior_range), OfInt(kernel_range)), factor))

get_scan_chirp_masses(model_metadata, factor) ==
    LET prior  == model_metadata.prior
        kernel == model_metadata.kernel
        prior_range  == prior.maximum - prior.minimum
        kernel_range == kernel.maximum - kernel.minimum
    IN  linspace(OfInt(prior.minimum - kernel.minimum),
                 OfInt(prior.maximum - kernel.maximum),
                 GridCount(prior_range, kernel_range, factor))

----------------------------------------------------------------------------
(* get_scan_times, lines 184-197                                           *)

ScanTimesCountNoEndpoint(model_metadata, time_scan_range, factor) ==
    LET prior   == model_metadata.geocent_time
        delta_t == RDiv(OfInt(prior.maximum - prior.minimum), factor)
    IN  Trunc(RDiv(OfInt(time_scan_range[2] - time_scan_range[1]), delta_t))

\* N of line 195
ScanTimesCount(model_metadata, time_scan_range, factor) ==
    LET prior   == model_metadata.geocent_time
        delta_t == RDiv(OfInt(prior.maximum - prior.minimum), factor)
    IN  Trunc(RDiv(OfInt(time_scan_range[2] - time_scan_range[1]), delta_t)) + 1

get_scan_times(model_metadata, time_scan_range, factor) ==
    IF time_scan_range = None
    THEN <<None>>
    ELSE linspace(OfInt(time_scan_range[1]), OfInt(time_scan_range[2]),
                  ScanTimesCount(model_metadata, time_scan_range, factor))

----------------------------------------------------------------------------
(* generate_data_for_scan, lines 96-107                                    *)

\* SelectStandardizeRepackageParameters of transform_pre (line 121), with
\* mean 1 and standard deviation 2 standing for data_settings["standardization"]
Standardize(x) == RDiv(RSub(x, OfInt(1)), OfInt(2))

\* transform_pre (lines 113-127) on {**data, **params_dict(x)}
transform_pre(event_data, x) ==
    [waveform |-> event_data.waveform, context_parameters |-> Standardize(x)]

\* torch.zeros((N, ...)), with the number of writes each row has received
Zeros(N) ==
    [waveform           |-> [i \in 1..N |-> [d \in {"H1", "L1"} |-> <<0, OfInt(0)>>]],
     context_parameters |-> [i \in 1..N |-> OfInt(0)],
     writes             |-> [i \in 1..N |-> 0]]

ScanSliceFirstRow(idx, num_samples) == <<idx * num_samples, idx * num_samples + 1>>

\* lower, upper of line 104 (idx counts from 0)
ScanSlice(idx, num_samples) == <<idx * num_samples, (idx + 1) * num_samples>>

\* lines 105-106: buf[lower:upper] = out
SliceAssign(buf, lower, upper, out) ==
    LET hit(i) == lower < i /\ i <= upper
    IN  [waveform |->
            [i \in 1..Len(buf.waveform) |->
                IF hit(i) THEN out.waveform ELSE buf.waveform[i]],
         context_parameters |->
            [i \in 1..Len(buf.context_parameters) |->
                IF hit(i) THEN out.context_parameters ELSE buf.context_parameters[i]],
         writes |->
            [i \in 1..Len(buf.writes) |->
                IF hit(i) THEN buf.writes[i] + 1 ELSE buf.writes[i]]]

\* the for loop of lines 102-106, from iteration idx (counting from 0) on
RECURSIVE ScanLoop(_, _, _, _, _)
ScanLoop(buf, event_data, masses, num_samples, idx) ==
    IF idx >= Len(masses) THEN buf
    ELSE LET out == transform_pre(event_data, masses[idx + 1])
             sl  == ScanSlice(idx, num_samples)
         IN  ScanLoop(SliceAssign(buf, sl[1], sl[2], out),
                      event_data, masses, num_samples, idx + 1)

generate_data_for_scan(event_data, masses, num_samples) ==
    ScanLoop(Zeros(Len(masses) * num_samples), event_data, masses, num_samples, 0)

----------------------------------------------------------------------------
(* time_translate_event_dataset, lines 174-181                             *)

\* FrequencyDomain.time_translate_data: the data translated in time by dt
time_translate_data(v, t) == <<v[1], RAdd(v[2], t)>>

time_translate_event_dataset_plus(ds, t) ==
    [ds EXCEPT
        !.data.waveform = [k \in DOMAIN @ |-> time_translate_data(@[k], t)],
        !.settings.time_event = RAdd(@, t)]

\* the EventDataset object after the call: it is changed in place
time_translate_event_dataset(ds, t) ==
    [ds EXCEPT
        !.data.waveform = [k \in DOMAIN @ |-> time_translate_data(@[k], t)],
        !.settings.time_event = RSub(@, t)]

----------------------------------------------------------------------------
(* Prior, likelihood and trigger selection of main                         *)

\* -np.inf (line 248)
NegInf == -1000

\* float addition of log-likelihood and log-prior
FAdd(x, y) == IF x = NegInf \/ y = NegInf THEN NegInf ELSE x + y

\* StationaryGaussianGWLikelihood.log_likelihood with return_aux_snr: a
\* deterministic score (log-likelihood, snr) of one parameter row
Score(row) ==
    <<CASE row.psi = 0 -> 1 [] row.psi = 1 -> 2 [] OTHER -> 2, 8 + row.psi>>

\* likelihood.log_likelihood_multi(theta, num_processes): one score per row,
\* in the order of the rows
log_likelihood_multi(table, num_processes) ==
    [i \in 1..Len(table) |-> Score(table[i])]

\* np.where(log_prior >= -np.inf)[0]: every position
where_any(lp, i) == [k \in 1..(Len(lp) - i + 1) |-> k + i - 1]

\* np.where(log_prior > -np.inf)[0] (line 248): the positions, ascending
RECURSIVE where_finite(_, _)
where_finite(lp, i) ==
    IF i > Len(lp) THEN << >>
    ELSE IF lp[i] > NegInf THEN <<i>> \o where_finite(lp, i + 1)
         ELSE where_finite(lp, i + 1)


\* theta.iloc[indices] and log_prior[indices] (lines 249-250)
Take(arr, indices) == [k \in 1..Len(indices) |-> arr[indices[k]]]

ArgMaxLast(arr) ==
    CHOOSE i \in 1..Len(arr) :
        /\ \A j \in 1..Len(arr) : arr[j] <= arr[i]
        /\ \A j \in (i + 1)..Len(arr) : arr[j] < arr[i]

\* np.argmax(arr) for a non-empty array, as a position counted from 1
ArgMax(arr) ==
    CHOOSE i \in 1..Len(arr) :
        /\ \A j \in 1..Len(arr) : arr[j] <= arr[i]
        /\ \A j \in 1..(i - 1) : arr[j] < arr[i]

\* the tables of a sequence of tables, one after the other
RECURSIVE Concat(_)
Concat(tables) ==
    IF Len(tables) = 0 THEN << >> ELSE Head(tables) \o Concat(Tail(tables))

\* chirp_masses.repeat(num_samples) (line 237)
repeat(masses, num_samples) ==
    [i \in 1..(Len(masses) * num_samples) |-> masses[((i - 1) \div num_samples) + 1]]

----------------------------------------------------------------------------
(* Bounds and input sets                                                   *)

MaxPriorRange == 6
MaxKernelRange == 3
MaxOverlap == 3
MaxTime == 2
MaxTimeWindow == 3
MaxSamples == 4
MaxBatchGrid == 3
MaxBatchRows == 12
MaxRows == 3
MaxScanSpan == 2
MaxPoolRows == 3
MaxWorkers == 3

\* line 213: get_scan_chirp_masses(model.metadata, overlap_factor=2)
ScanOverlap == 2
\* line 217: get_scan_times(..., overlap_factor=1)
TimeOverlap == 1

Metadata(pmin, pmax, kmin, kmax, tmin, tmax) ==
    [prior        |-> [minimum |-> pmin, maximum |-> pmax],
     kernel       |-> [minimum |-> kmin, maximum |-> kmax],
     geocent_time |-> [minimum |-> tmin, maximum |-> tmax]]

\* prior [0, 10], kernel [-0.5, 0.5] in units of 0.5
ExampleGridMetadata == Metadata(0, 20, -1, 1, -1, 1)

GridMetadata ==
    {Metadata(a, a + p, k, k + w, -1, 1) :
        a \in {0, 3}, p \in 1..MaxPriorRange,
        k \in (-MaxKernelRange)..0, w \in 1..MaxKernelRange}
    \cup {ExampleGridMetadata}

\* the overlap factors 1, 1.5, 2, ... up to MaxOverlap
OverlapFactors == {Frac(n, 2) : n \in 2..(2 * MaxOverlap)}

DefaultArgs ==
    [num_samples |-> 1, time_scan_range |-> None, num_processes |-> 0,
     outfile |-> None]

\* a waveform is <<strain, t>>: the strain of the file (1; 0 for a zero tensor)
\* and the time by which it has been translated
DefaultEventFile ==
    [data     |-> [waveform |-> [d \in {"H1", "L1"} |-> <<1, OfInt(0)>>],
                   asds     |-> [d \in {"H1", "L1"} |-> 1]],
     settings |-> [f_min |-> 20, f_max |-> 1024, T |-> 8, time_event |-> OfInt(100)]]

InitLocals ==
    /\ chirp_masses = None /\ times = None
    /\ t_pos = 0 /\ dt = None /\ event_dataset = None
    /\ data = None /\ samples = None /\ theta = None
    /\ ln_prob = None /\ log_prior = None
    /\ log_likelihoods = None /\ snrs = None /\ log_probs = None
    /\ trigger = None
    /\ theta_out = [is_none |-> TRUE, rows |-> << >>]
    /\ pickled = [written |-> FALSE, rows |-> << >>]
    /\ appended = << >>
    /\ pool = IdlePool

----------------------------------------------------------------------------
(* main, line 213                                                          *)

MainGetScanChirpMasses ==
    /\ pc = "get_scan_chirp_masses"
    /\ chirp_masses' = get_scan_chirp_masses(metadata, overlap_factor)
    /\ pc' = "get_scan_times"
    /\ UNCHANGED <<inputVars, times, loopVars, iterVars, outVars, pool, nsf>>

(* get_scan_chirp_masses applied to every prior, kernel and overlap factor *)
(* of the bounded input sets.                                              *)
InitGrid ==
    /\ metadata \in GridMetadata
    /\ overlap_factor \in OverlapFactors
    /\ time_overlap_factor = OfInt(TimeOverlap)
    /\ args = DefaultArgs
    /\ event_file = DefaultEventFile
    /\ InitLocals
    /\ nsf = IdleNsf
    /\ pc = "get_scan_chirp_masses"

NextGrid == MainGetScanChirpMasses

SpecGrid == InitGrid /\ [][NextGrid]_vars

PriorRange == metadata.prior.maximum - metadata.prior.minimum
KernelRange == metadata.kernel.maximum - metadata.kernel.minimum
GridBuilt == pc = "get_scan_times"
GridLen == Len(chirp_masses)
GridIsExample == metadata = ExampleGridMetadata /\ overlap_factor = OfInt(2)

(* C1 as stated: the grid starts at prior_min - kernel_min, ends at        *)
(* prior_max - kernel_max, and consecutive values are spaced by            *)
(* kernel_width / overlap_factor; for prior [0, 10], kernel [-0.5, 0.5]    *)
(* and factor 2 the count is 19 and the spacing 0.5 (1 in units of 0.5).   *)
C1_AsStated ==
    GridBuilt =>
        /\ GridLen >= 1
        /\ chirp_masses[1] = OfInt(metadata.prior.minimum - metadata.kernel.minimum)
        /\ chirp_masses[GridLen]
              = OfInt(metadata.prior.maximum - metadata.kernel.maximum)
        /\ \A i \in 1..(GridLen - 1) :
              RSub(chirp_masses[i + 1], chirp_masses[i])
                  = RDiv(OfInt(KernelRange), overlap_factor)
        /\ GridIsExample => GridLen = 19

(* C1 amended: the grid has N = ceil(prior_range / kernel_range * factor)  *)
(* values and starts at prior_min - kernel_min; when N >= 2 it ends at     *)
(* prior_max - kernel_max and consecutive values are spaced by             *)
(* (prior_range - kernel_range) / (N - 1), which is at most                *)
(* kernel_width / overlap_factor; for prior [0, 10], kernel [-0.5, 0.5]    *)
(* and factor 2 the count is 20, the first value 0.5, the last 9.5 and the *)
(* spacing 9/19 (18/19 in units of 0.5).                                   *)
C1_Grid ==
    GridBuilt =>
        /\ GridLen >= 1
        /\ RLe(RMul(OfInt(PriorRange), overlap_factor), OfInt(GridLen * KernelRange))
        /\ RLt(OfInt((GridLen - 1) * KernelRange),
               RMul(OfInt(PriorRange), overlap_factor))
        /\ chirp_masses[1] = OfInt(metadata.prior.minimum - metadata.kernel.minimum)
        /\ GridLen >= 2 =>
              /\ chirp_masses[GridLen]
                    = OfInt(metadata.prior.maximum - metadata.kernel.maximum)
              /\ \A i \in 1..(GridLen - 1) :
                    /\ RSub(chirp_masses[i + 1], chirp_masses[i])
                          = Frac(PriorRange - KernelRange, GridLen - 1)
                    /\ RLe(RSub(chirp_masses[i + 1], chirp_masses[i]),
                           RDiv(OfInt(KernelRange), overlap_factor))
        /\ GridIsExample =>
              /\ GridLen = 20
              /\ chirp_masses[1] = <<1, 1>>
              /\ chirp_masses[20] = <<19, 1>>
              /\ RSub(chirp_masses[2], chirp_masses[1]) = <<18, 19>>

C1_Witness == GridBuilt /\ GridIsExample /\ GridLen = 20

\* the values m = prior_min + j / (2 (N - 1)) of the prior interval: window edges
\* are multiples of 1 / (N - 1), so a gap between windows would contain one
CoverageProbes ==
    LET d == IF GridLen >= 2 THEN 2 * (GridLen - 1) ELSE 2
    IN  {RAdd(OfInt(metadata.prior.minimum), Frac(j, d)) : j \in 0..(d * PriorRange)}

InWindow(m, c) ==
    /\ RLe(RAdd(c, OfInt(metadata.kernel.minimum)), m)
    /\ RLe(m, RAdd(c, OfInt(metadata.kernel.maximum)))

(* C2: every value of the prior interval lies in the kernel window         *)
(* [c + kernel_min, c + kernel_max] of at least one grid value c, and the  *)
(* windows of consecutive grid values overlap or touch; a grid of one      *)
(* point covers the prior interval with its single window.                 *)
C2_Coverage ==
    GridBuilt =>
        /\ GridLen >= 1
        /\ \A m \in CoverageProbes :
              \E i \in 1..GridLen : InWindow(m, chirp_masses[i])
        /\ \A i \in 1..(GridLen - 1) :
              /\ RLe(RAdd(chirp_masses[i], OfInt(metadata.kernel.minimum)),
                     RAdd(chirp_masses[i + 1], OfInt(metadata.kernel.maximum)))
              /\ RLe(RAdd(chirp_masses[i + 1], OfInt(metadata.kernel.minimum)),
                     RAdd(chirp_masses[i], OfInt(metadata.kernel.maximum)))

C2_Witness ==
    /\ GridBuilt
    /\ GridLen >= 3
    /\ chirp_masses[2][2] > 1
    /\ PriorRange > KernelRange
    /\ \E m \in CoverageProbes :
          /\ ~InWindow(m, chirp_masses[1])
          /\ InWindow(m, chirp_masses[2])

----------------------------------------------------------------------------
(* main, line 217                                                          *)

\* np.linspace raises ValueError for a negative number of samples
MainGetScanTimes ==
    /\ pc = "get_scan_times"
    /\ IF /\ args.time_scan_range # None
          /\ ScanTimesCount(metadata, args.time_scan_range, time_overlap_factor) < 0
       THEN pc' = "error" /\ UNCHANGED times
       ELSE /\ times' = get_scan_times(metadata, args.time_scan_range,
                                       time_overlap_factor)
            /\ pc' = "for_dt"
    /\ UNCHANGED <<inputVars, chirp_masses, loopVars, iterVars, outVars, pool, nsf>>

\* times in units of 0.1 s
TimeScanRanges ==
    {None} \cup {<<a, b>> : a \in (-MaxTime)..MaxTime, b \in (-MaxTime)..MaxTime}

TimeMetadata ==
    {Metadata(0, 1, -1, 1, a, a + w) : a \in {-1, 0}, w \in 1..MaxTimeWindow}

(* get_scan_times applied to every scan range, prior time window and       *)
(* overlap factor of the bounded input sets.                               *)
InitTimes ==
    /\ metadata \in TimeMetadata
    /\ overlap_factor = OfInt(ScanOverlap)
    /\ time_overlap_factor \in OverlapFactors
    /\ args \in {[DefaultArgs EXCEPT !.time_scan_range = r] : r \in TimeScanRanges}
    /\ event_file = DefaultEventFile
    /\ InitLocals
    /\ nsf = IdleNsf
    /\ pc = "get_scan_times"

NextTimes == MainGetScanTimes

SpecTimes == InitTimes /\ [][NextTimes]_vars

TimesBuilt == pc = "for_dt"
TimeWindow == metadata.geocent_time.maximum - metadata.geocent_time.minimum
ScanSpan == args.time_scan_range[2] - args.time_scan_range[1]
\* prior_time_window / overlap_factor
TimeSpacing == RDiv(OfInt(TimeWindow), time_overlap_factor)
TimesIsExample ==
    /\ args.time_scan_range = <<-1, 1>>
    /\ TimeWindow = 2
    /\ time_overlap_factor = OfInt(1)

(* C7 as stated: [None] without a window; otherwise, for t_min <= t_max,   *)
(* floor((t_max - t_min) / spacing) + 1 offsets with                       *)
(* spacing = prior_time_window / overlap_factor between consecutive        *)
(* offsets, the first t_min and the last t_max; [-0.1, 0.1] for            *)
(* t_min = -0.1, t_max = 0.1, window 0.2, overlap 1.                       *)
C7_AsStated ==
    TimesBuilt =>
        /\ args.time_scan_range = None => times = <<None>>
        /\ (args.time_scan_range # None /\ ScanSpan >= 0) =>
              /\ RLe(OfInt(Len(times) - 1), RDiv(OfInt(ScanSpan), TimeSpacing))
              /\ RLt(RDiv(OfInt(ScanSpan), TimeSpacing), OfInt(Len(times)))
              /\ \A i \in 1..(Len(times) - 1) :
                    RSub(times[i + 1], times[i]) = TimeSpacing
              /\ times[1] = OfInt(args.time_scan_range[1])
              /\ times[Len(times)] = OfInt(args.time_scan_range[2])
        /\ (args.time_scan_range # None /\ TimesIsExample) =>
              times = <<OfInt(-1), OfInt(1)>>

(* C7 amended: [None] without a window; otherwise, for t_min <= t_max,     *)
(* N = floor((t_max - t_min) / spacing) + 1 offsets with                   *)
(* spacing = prior_time_window / overlap_factor, the first equal to t_min; *)
(* when N >= 2 the last is t_max and consecutive offsets are               *)
(* (t_max - t_min) / (N - 1) apart, which is at least spacing and equals   *)
(* it exactly when t_max - t_min is a whole multiple of spacing; when      *)
(* N = 1 the only offset is t_min. [-0.1, 0.1] for t_min = -0.1,           *)
(* t_max = 0.1, window 0.2, overlap 1.                                     *)
C7_Times ==
    TimesBuilt =>
        /\ args.time_scan_range = None => times = <<None>>
        /\ (args.time_scan_range # None /\ ScanSpan >= 0) =>
              /\ Len(times) >= 1
              /\ RLe(OfInt(Len(times) - 1), RDiv(OfInt(ScanSpan), TimeSpacing))
              /\ RLt(RDiv(OfInt(ScanSpan), TimeSpacing), OfInt(Len(times)))
              /\ times[1] = OfInt(args.time_scan_range[1])
              /\ Len(times) >= 2 =>
                    /\ times[Len(times)] = OfInt(args.time_scan_range[2])
                    /\ \A i \in 1..(Len(times) - 1) :
                          /\ RSub(times[i + 1], times[i])
                                = Frac(ScanSpan, Len(times) - 1)
                          /\ RLe(TimeSpacing, RSub(times[i + 1], times[i]))
                          /\ (RSub(times[i + 1], times[i]) = TimeSpacing)
                             <=> (RDiv(OfInt(ScanSpan), TimeSpacing)[2] = 1)
        /\ (args.time_scan_range # None /\ TimesIsExample) =>
              times = <<OfInt(-1), OfInt(1)>>

\* three offsets whose spacing is not prior_time_window / overlap_factor
C7_Witness ==
    /\ TimesBuilt
    /\ args.time_scan_range # None
    /\ ScanSpan > 0
    /\ Len(times) = 3
    /\ RSub(times[2], times[1]) # TimeSpacing

----------------------------------------------------------------------------
(* main, lines 218-293: the loop over the time offsets                     *)

\* line 218: for dt in times
MainForDt ==
    /\ pc = "for_dt"
    /\ IF t_pos < Len(times)
       THEN /\ t_pos' = t_pos + 1
            /\ dt' = times[t_pos + 1]
            /\ pc' = "load"
       ELSE /\ pc' = "save"
            /\ UNCHANGED <<t_pos, dt>>
    /\ UNCHANGED <<inputVars, gridVars, event_dataset, iterVars, outVars, pool, nsf>>

\* line 220: event_dataset = EventDataset(args.event_data)
MainLoad ==
    /\ pc = "load"
    /\ event_dataset' = event_file
    /\ pc' = "translate"
    /\ UNCHANGED <<inputVars, gridVars, t_pos, dt, iterVars, outVars, pool, nsf>>

\* lines 221-222
MainTranslate ==
    /\ pc = "translate"
    /\ IF dt # None
       THEN event_dataset' = time_translate_event_dataset(event_dataset, dt)
       ELSE UNCHANGED event_dataset
    /\ pc' = "generate"
    /\ UNCHANGED <<inputVars, gridVars, t_pos, dt, iterVars, outVars, pool, nsf>>

\* lines 225-230; chirp_masses[0] of line 99 raises IndexError on an empty grid
MainGenerate ==
    /\ pc = "generate"
    /\ IF Len(chirp_masses) = 0
       THEN pc' = "error" /\ UNCHANGED data
       ELSE /\ data' = generate_data_for_scan(event_dataset.data, chirp_masses,
                                              args.num_samples)
            /\ pc' = "sample"
    /\ UNCHANGED <<inputVars, gridVars, loopVars, samples, theta, ln_prob, log_prior,
                   log_likelihoods, snrs, log_probs, trigger, outVars, pool, nsf>>

\* lines 234-237: one sample per row of data, drawn from the sets of draws;
\* delta_chirp_mass is popped and chirp_mass set from the repeated grid
MainSample(draws) ==
    /\ pc = "sample"
    /\ \E delta \in [1..Len(data.waveform) -> draws.delta_chirp_mass],
          gt \in [1..Len(data.waveform) -> draws.geocent_time],
          psi \in [1..Len(data.waveform) -> draws.psi] :
          samples' =
              [delta_chirp_mass |-> delta,
               parameters |->
                   [i \in 1..Len(data.waveform) |->
                       [chirp_mass |->
                            RAdd(repeat(chirp_masses, args.num_samples)[i], delta[i]),
                        geocent_time |-> gt[i],
                        psi |-> psi[i]]]]
    /\ pc' = "ln_prob"
    /\ UNCHANGED <<inputVars, gridVars, loopVars, data, theta, ln_prob, log_prior,
                   log_likelihoods, snrs, log_probs, trigger, outVars, pool, nsf>>

\* pd.DataFrame(samples): the rows with their index labels 0, 1, ...
DataFrame(parameters) ==
    [i \in 1..Len(parameters) |->
        [index        |-> i - 1,
         chirp_mass   |-> parameters[i].chirp_mass,
         geocent_time |-> parameters[i].geocent_time,
         psi          |-> parameters[i].psi]]

\* lines 246-247: the prior returns one log-prior per row
MainLnProb(draws) ==
    /\ pc = "ln_prob"
    /\ theta' = DataFrame(samples.parameters)
    /\ \E lp \in [1..Len(samples.parameters) -> draws.log_prior] :
          ln_prob' = lp /\ log_prior' = lp
    /\ pc' = "filter"
    /\ UNCHANGED <<inputVars, gridVars, loopVars, data, samples,
                   log_likelihoods, snrs, log_probs, trigger, outVars, pool, nsf>>

\* lines 248-250
MainFilter ==
    /\ pc = "filter"
    /\ LET indices == where_finite(log_prior, 1)
       IN  /\ theta' = Take(theta, indices)
           /\ log_prior' = Take(log_prior, indices)
    /\ pc' = "likelihood"
    /\ UNCHANGED <<inputVars, gridVars, loopVars, data, samples, ln_prob,
                   log_likelihoods, snrs, log_probs, trigger, outVars, pool, nsf>>

\* lines 252-256. For an empty table log_likelihood_multi returns an empty
\* array: of shape (0,), whose unpacking into two raises ValueError, or of
\* shape (0, 2), which unpacks into two empty arrays.
Unpack(out) ==
    /\ log_likelihoods' = [i \in 1..Len(out) |-> out[i][1]]
    /\ snrs' = [i \in 1..Len(out) |-> out[i][2]]
    /\ log_probs' = [i \in 1..Len(out) |-> FAdd(out[i][1], log_prior[i])]

\* with num_processes <= 1 the rows are scored one after the other
MainLikelihood ==
    /\ pc = "likelihood"
    /\ args.num_processes <= 1
    /\ LET out == log_likelihood_multi(theta, args.num_processes)
       IN  \/ /\ Len(theta) = 0
              /\ pc' = "error"
              /\ UNCHANGED <<log_likelihoods, snrs, log_probs>>
           \/ /\ Unpack(out)
              /\ pc' = "trigger"
    /\ UNCHANGED <<inputVars, gridVars, loopVars, data, samples, theta, ln_prob,
                   log_prior, trigger, outVars, pool, nsf>>

\* lines 260-266; np.argmax raises ValueError on an empty array
MainTrigger ==
    /\ pc = "trigger"
    /\ IF Len(log_likelihoods) = 0
       THEN pc' = "error" /\ UNCHANGED trigger
       ELSE /\ trigger' =
                [chirp_mass_trigger |-> theta[ArgMax(log_likelihoods)].chirp_mass,
                 time_trigger       |-> theta[ArgMax(log_likelihoods)].geocent_time,
                 snr                |-> snrs[ArgMax(log_likelihoods)],
                 gps_trigger        |->
                     RAdd(event_dataset.settings.time_event,
                          theta[ArgMax(log_likelihoods)].geocent_time)]
            /\ pc' = "append"
    /\ UNCHANGED <<inputVars, gridVars, loopVars, data, samples, theta, ln_prob,
                   log_prior, log_likelihoods, snrs, log_probs, outVars, pool, nsf>>

\* lines 284-286: the three columns added to theta
WithColumns(table, lls, snr_col, time_event) ==
    [i \in 1..Len(table) |->
        [index          |-> table[i].index,
         chirp_mass     |-> table[i].chirp_mass,
         geocent_time   |-> table[i].geocent_time,
         psi            |-> table[i].psi,
         log_likelihood |-> lls[i],
         snr            |-> snr_col[i],
         time_event     |-> time_event]]

\* lines 284-290
MainAppend ==
    /\ pc = "append"
    /\ LET scored == WithColumns(theta, log_likelihoods, snrs,
                                 event_dataset.settings.time_event)
       IN  /\ theta' = scored
           /\ theta_out' =
                  IF theta_out.is_none
                  THEN [is_none |-> FALSE, rows |-> scored]
                  ELSE [is_none |-> FALSE, rows |-> theta_out.rows \o scored]
           /\ appended' = Append(appended, scored)
    /\ pc' = "for_dt"
    /\ UNCHANGED <<inputVars, gridVars, loopVars, data, samples, ln_prob, log_prior,
                   log_likelihoods, snrs, log_probs, trigger, pickled, pool, nsf>>

\* lines 292-293; None has no reset_index (AttributeError)
MainSave ==
    /\ pc = "save"
    /\ IF args.outfile # None
       THEN IF theta_out.is_none
            THEN pc' = "error" /\ UNCHANGED pickled
            ELSE /\ pickled' = [written |-> TRUE, rows |-> theta_out.rows]
                 /\ pc' = "done"
       ELSE pc' = "done" /\ UNCHANGED pickled
    /\ UNCHANGED <<inputVars, gridVars, loopVars, iterVars, theta_out, appended, pool, nsf>>

----------------------------------------------------------------------------
(* Batching: main up to the sampling, for every grid and num_samples       *)

BatchDraws ==
    [delta_chirp_mass |-> {OfInt(0), OfInt(1)}, geocent_time |-> {OfInt(0)},
     psi |-> {1}, log_prior |-> {0}]

\* grids of 1 to MaxBatchGrid values, and the descending grid [1, 0]
BatchMetadata ==
    {Metadata(0, p, -1, 1, 0, 1) : p \in 1..MaxBatchGrid}
    \cup {Metadata(0, 2, -1, 2, 0, 1)}

InitBatch ==
    /\ metadata \in BatchMetadata
    /\ overlap_factor = OfInt(ScanOverlap)
    /\ time_overlap_factor = OfInt(TimeOverlap)
    /\ args \in {[DefaultArgs EXCEPT !.num_samples = n] : n \in 1..MaxSamples}
    /\ Len(get_scan_chirp_masses(metadata, overlap_factor)) * args.num_samples
          <= MaxBatchRows
    /\ event_file = DefaultEventFile
    /\ InitLocals
    /\ nsf = IdleNsf
    /\ pc = "get_scan_chirp_masses"

NextBatch ==
    \/ MainGetScanChirpMasses
    \/ MainGetScanTimes
    \/ MainForDt
    \/ MainLoad
    \/ MainTranslate
    \/ MainGenerate
    \/ MainSample(BatchDraws)

SpecBatch == InitBatch /\ [][NextBatch]_vars

DataGenerated == pc \in {"sample", "ln_prob"}
GridRowOf(i) == chirp_masses[(i \div args.num_samples) + 1]

(* C3: generate_data_for_scan returns buffers of exactly G * n rows; row i *)
(* (counted from 0) holds the preprocessing output for grid value number   *)
(* i // n and has been written exactly once; main gives sample row i the   *)
(* chirp mass chirp_masses[i // n] + delta_chirp_mass[i].                  *)
C3_Batching ==
    /\ DataGenerated =>
          /\ Len(data.waveform) = Len(chirp_masses) * args.num_samples
          /\ Len(data.context_parameters) = Len(chirp_masses) * args.num_samples
          /\ \A i \in 0..(Len(chirp_masses) * args.num_samples - 1) :
                /\ data.waveform[i + 1] = event_dataset.data.waveform
                /\ data.context_parameters[i + 1]
                      = RDiv(RSub(GridRowOf(i), OfInt(1)), OfInt(2))
                /\ data.writes[i + 1] = 1
    /\ pc = "ln_prob" =>
          /\ Len(samples.parameters) = Len(chirp_masses) * args.num_samples
          /\ \A i \in 0..(Len(chirp_masses) * args.num_samples - 1) :
                samples.parameters[i + 1].chirp_mass
                    = RAdd(GridRowOf(i), samples.delta_chirp_mass[i + 1])

\* a grid of 3 values with 4 samples each: rows 8 to 11 belong to grid value 2
C3_Witness ==
    /\ pc = "ln_prob"
    /\ Len(chirp_masses) = 3
    /\ args.num_samples = 4
    /\ Len(data.waveform) = 12
    /\ chirp_masses[2] # chirp_masses[3]
    /\ data.context_parameters[8] # data.context_parameters[9]
    /\ samples.delta_chirp_mass[8] # samples.delta_chirp_mass[9]
    /\ samples.parameters[9].chirp_mass
          = RAdd(chirp_masses[3], samples.delta_chirp_mass[9])

----------------------------------------------------------------------------
(* One scan iteration with varied samples, log-priors and scores           *)

TriggerDraws ==
    [delta_chirp_mass |-> {OfInt(0)}, geocent_time |-> {OfInt(0), OfInt(1)},
     psi |-> {0, 1, 2}, log_prior |-> {NegInf, 0, 2}]

\* chirp-mass grids [1], [1, 0] and [1, 1.5, 2] under the overlap factor of
\* line 213
TriggerMetadata ==
    {Metadata(0, 1, -1, 1, 0, 1), Metadata(0, 2, -1, 2, 0, 1),
     Metadata(0, 3, -1, 1, 0, 1)}

InitTrigger ==
    /\ metadata \in TriggerMetadata
    /\ overlap_factor = OfInt(ScanOverlap)
    /\ time_overlap_factor = OfInt(TimeOverlap)
    /\ args \in {[DefaultArgs EXCEPT !.num_samples = n, !.time_scan_range = r,
                                     !.outfile = <<"scan.pkl">>] :
                    n \in 1..MaxSamples, r \in {None, <<1, 1>>}}
    /\ Len(get_scan_chirp_masses(metadata, overlap_factor)) * args.num_samples
          <= MaxRows
    /\ event_file = DefaultEventFile
    /\ InitLocals
    /\ nsf = IdleNsf
    /\ pc = "get_scan_chirp_masses"

NextTrigger ==
    \/ MainGetScanChirpMasses
    \/ MainGetScanTimes
    \/ MainForDt
    \/ MainLoad
    \/ MainTranslate
    \/ MainGenerate
    \/ MainSample(TriggerDraws)
    \/ MainLnProb(TriggerDraws)
    \/ MainFilter
    \/ MainLikelihood
    \/ MainTrigger
    \/ MainAppend
    \/ MainSave

SpecTrigger == InitTrigger /\ [][NextTrigger]_vars

----------------------------------------------------------------------------
(* The scan over several time offsets                                      *)

ScanDraws ==
    [delta_chirp_mass |-> {OfInt(0)}, geocent_time |-> {OfInt(0)},
     psi |-> {1}, log_prior |-> {NegInf, 0}]

InitScan ==
    /\ metadata = Metadata(0, 1, -1, 1, 0, 1)
    /\ overlap_factor = OfInt(ScanOverlap)
    /\ time_overlap_factor = OfInt(TimeOverlap)
    /\ args \in {[DefaultArgs EXCEPT !.num_samples = n, !.time_scan_range = r,
                                     !.outfile = f] :
                    n \in 1..MaxSamples,
                    r \in {None} \cup {<<-1, s - 1>> : s \in 0..MaxScanSpan},
                    f \in {None, <<"scan.pkl">>}}
    /\ Len(get_scan_chirp_masses(metadata, overlap_factor)) * args.num_samples
          <= MaxRows
    /\ event_file = DefaultEventFile
    /\ InitLocals
    /\ nsf = IdleNsf
    /\ pc = "get_scan_chirp_masses"

NextScan ==
    \/ MainGetScanChirpMasses
    \/ MainGetScanTimes
    \/ MainForDt
    \/ MainLoad
    \/ MainTranslate
    \/ MainGenerate
    \/ MainSample(ScanDraws)
    \/ MainLnProb(ScanDraws)
    \/ MainFilter
    \/ MainLikelihood
    \/ MainTrigger
    \/ MainAppend
    \/ MainSave

SpecScan == InitScan /\ [][NextScan]_vars

----------------------------------------------------------------------------
(* Claims about one scan iteration                                         *)

\* the filter of lines 248-250 has run in the current iteration
Filtered == pc \in {"likelihood", "trigger", "append"}
\* the likelihood of lines 252-256 has run on the current table
Scored == pc \in {"trigger", "append"}

C6_PriorFilter ==
    /\ Filtered =>
          /\ \A k \in 1..Len(theta) :
                /\ ln_prob[theta[k].index + 1] # NegInf
                /\ theta[k].chirp_mass = samples.parameters[theta[k].index + 1].chirp_mass
                /\ theta[k].geocent_time
                      = samples.parameters[theta[k].index + 1].geocent_time
                /\ theta[k].psi = samples.parameters[theta[k].index + 1].psi
          /\ \A i \in 1..Len(ln_prob) :
                ln_prob[i] # NegInf => \E k \in 1..Len(theta) : theta[k].index = i - 1
          /\ \A k \in 1..Len(theta) : \A l \in (k + 1)..Len(theta) :
                theta[k].index < theta[l].index
          /\ Len(log_prior) = Len(theta)
          /\ \A k \in 1..Len(theta) : log_prior[k] = ln_prob[theta[k].index + 1]
    /\ Scored =>
          /\ Len(log_likelihoods) = Len(theta)
          /\ Len(snrs) = Len(theta)
          /\ \A k \in 1..Len(theta) :
                /\ log_likelihoods[k] = Score(theta[k])[1]
                /\ snrs[k] = Score(theta[k])[2]
    /\ (pc \in {"for_dt", "save", "done"} /\ Len(appended) = 1) =>
          /\ theta_out.rows = appended[1]
          /\ \A k \in 1..Len(theta_out.rows) :
                /\ ln_prob[theta_out.rows[k].index + 1] # NegInf
                /\ theta_out.rows[k].log_likelihood
                      = Score(samples.parameters[theta_out.rows[k].index + 1])[1]
          /\ \A i \in 1..Len(ln_prob) :
                ln_prob[i] # NegInf
                    => \E k \in 1..Len(theta_out.rows) : theta_out.rows[k].index = i - 1

\* the first of two samples is outside the prior support and only the second
\* is scored
C6_Witness ==
    /\ pc = "trigger"
    /\ Len(ln_prob) = 2
    /\ ln_prob[1] = NegInf
    /\ ln_prob[2] # NegInf
    /\ Len(theta) = 1
    /\ theta[1].index = 1
    /\ Len(log_likelihoods) = 1

----------------------------------------------------------------------------
(* Claims about the scan over the time offsets                             *)

\* every sample drawn in the current iteration has log-prior -inf
AllOutsidePrior ==
    /\ t_pos >= 1
    /\ Len(ln_prob) >= 1
    /\ \A i \in 1..Len(ln_prob) : ln_prob[i] = NegInf

(* C4: an iteration in which every sample has log-prior -inf raises no     *)
(* error, adds no row to the result table, and the scan goes on.           *)
C4_Degeneracy ==
    (AllOutsidePrior /\ Len(theta) = 0) => pc # "error"

\* the translation of lines 221-222 is about to run with a non-null offset
Translating == pc = "translate" /\ dt # None

Completed == IF pc \in {"for_dt", "save", "done"} THEN t_pos ELSE t_pos - 1
LoopEntered == pc \notin {"get_scan_chirp_masses", "get_scan_times"}
Stopped == pc \in {"done", "error"}

(* The part of C10 that does not depend on the scan reaching its end: the  *)
(* offsets are taken in grid order, the result table is the concatenation  *)
(* of what the completed iterations appended, every row of iteration k     *)
(* carries the file's time_event minus the k-th offset, and the table is   *)
(* serialized only after the last offset.                                  *)
C10_Accumulation ==
    LoopEntered =>
        /\ t_pos \in 0..Len(times)
        /\ t_pos >= 1 => dt = times[t_pos]
        /\ pc # "error" => Len(appended) = Completed
        /\ theta_out.rows = Concat(appended)
        /\ theta_out.is_none <=> Len(appended) = 0
        /\ \A k \in 1..Len(appended) : \A i \in 1..Len(appended[k]) :
              appended[k][i].time_event
                  = IF times[k] = None
                    THEN event_file.settings.time_event
                    ELSE RSub(event_file.settings.time_event, times[k])
        /\ pickled.written =>
              /\ pc = "done"
              /\ t_pos = Len(times)
              /\ pickled.rows = theta_out.rows

(* C10: the offsets are processed in grid order, each exactly once; the    *)
(* result table is the concatenation of the scored tables of the completed *)
(* iterations, each row carrying the file's time_event minus its offset;   *)
(* the scan stops only after the last offset and only then serializes.     *)
C10_Scan ==
    /\ C10_Accumulation
    /\ Stopped => (pc = "done" /\ t_pos = Len(times) /\ Len(appended) = Len(times))

----------------------------------------------------------------------------
(* log_likelihood_multi with num_processes > 1: the table is cut into      *)
(* contiguous chunks, one per worker; the workers score their chunks       *)
(* independently and the results are put together by chunk index.          *)

\* rows lo..hi of the k-th of w chunks of a table of n rows (lo > hi: empty)
Chunk(n, w, k) ==
    LET size(j) == (n \div w) + (IF j <= n % w THEN 1 ELSE 0)
        lo == 1 + (k - 1) * (n \div w) + (IF k - 1 <= n % w THEN k - 1 ELSE n % w)
    IN  <<lo, lo + size(k) - 1>>

ChunkSize(c) == c[2] - c[1] + 1

PoolDispatch ==
    /\ pc = "likelihood"
    /\ args.num_processes > 1
    /\ pool' = [chunks  |-> [k \in 1..args.num_processes |->
                                Chunk(Len(theta), args.num_processes, k)],
                results |-> [k \in 1..args.num_processes |-> << >>],
                order   |-> << >>]
    /\ pc' = "pool"
    /\ UNCHANGED <<inputVars, gridVars, loopVars, iterVars, outVars, nsf>>

\* worker k scores the next row of its chunk
PoolWork(k) ==
    /\ pc = "pool"
    /\ Len(pool.results[k]) < ChunkSize(pool.chunks[k])
    /\ LET row  == theta[pool.chunks[k][1] + Len(pool.results[k])]
           last == Len(pool.results[k]) + 1 = ChunkSize(pool.chunks[k])
       IN  pool' = [pool EXCEPT
                       !.results[k] = Append(@, Score(row)),
                       !.order = IF last THEN Append(@, k) ELSE @]
    /\ UNCHANGED <<inputVars, gridVars, loopVars, iterVars, outVars, nsf, pc>>

\* the results in the order in which the workers finished
MergeByCompletion(p) ==
    Concat([j \in 1..Len(p.order) |-> p.results[p.order[j]]])

\* the results by chunk index
Merge(p) == Concat(p.results)

\* every worker has finished: the merged array goes back to line 253
PoolMerge ==
    /\ pc = "pool"
    /\ \A k \in 1..Len(pool.chunks) :
          Len(pool.results[k]) = ChunkSize(pool.chunks[k])
    /\ \/ /\ Len(theta) = 0
          /\ pc' = "error"
          /\ UNCHANGED <<log_likelihoods, snrs, log_probs>>
       \/ /\ Unpack(Merge(pool))
          /\ pc' = "trigger"
    /\ UNCHANGED <<inputVars, gridVars, loopVars, data, samples, theta, ln_prob,
                   log_prior, trigger, outVars, pool, nsf>>

PoolTables ==
    UNION {[1..n -> {[index |-> 0, chirp_mass |-> OfInt(1),
                      geocent_time |-> OfInt(0), psi |-> v] : v \in {0, 1, 2}}] :
              n \in 0..MaxPoolRows}

(* The likelihood evaluation of lines 252-256 on every table and worker    *)
(* count of the bounded input sets.                                        *)
InitPool ==
    /\ metadata = Metadata(0, 1, -1, 1, 0, 1)
    /\ overlap_factor = OfInt(ScanOverlap)
    /\ time_overlap_factor = OfInt(TimeOverlap)
    /\ args \in {[DefaultArgs EXCEPT !.num_processes = w] : w \in 0..MaxWorkers}
    /\ event_file = DefaultEventFile
    /\ chirp_masses = <<OfInt(1)>> /\ times = <<None>>
    /\ t_pos = 1 /\ dt = None /\ event_dataset = event_file
    /\ data = None /\ samples = None
    /\ \E t \in PoolTables :
          /\ theta = [i \in 1..Len(t) |-> [t[i] EXCEPT !.index = i - 1]]
          /\ ln_prob = [i \in 1..Len(t) |-> 0]
          /\ log_prior = [i \in 1..Len(t) |-> 0]
    /\ log_likelihoods = None /\ snrs = None /\ log_probs = None
    /\ trigger = None
    /\ theta_out = [is_none |-> TRUE, rows |-> << >>]
    /\ pickled = [written |-> FALSE, rows |-> << >>]
    /\ appended = << >>
    /\ pool = IdlePool
    /\ nsf = IdleNsf
    /\ pc = "likelihood"

NextPool ==
    \/ MainLikelihood
    \/ PoolDispatch
    \/ \E k \in 1..Len(pool.chunks) : PoolWork(k)
    \/ PoolMerge

SpecPool == InitPool /\ [][NextPool]_vars

(* C9: for every table and worker count the chunks are contiguous and      *)
(* disjoint and cover every row exactly once, and whatever the order in    *)
(* which the workers run and finish, row i of the merged log-likelihoods   *)
(* and SNRs is the score of row i of the table: the output of the          *)
(* sequential evaluation.                                                  *)
C9_Parallel ==
    /\ pc = "pool" =>
          /\ Len(pool.chunks) = args.num_processes
          /\ \A i \in 1..Len(theta) :
                Cardinality({k \in 1..Len(pool.chunks) :
                                pool.chunks[k][1] <= i /\ i <= pool.chunks[k][2]}) = 1
          /\ \A k \in 1..Len(pool.chunks) :
                /\ pool.chunks[k][1] >= 1
                /\ pool.chunks[k][2] <= Len(theta)
                /\ pool.chunks[k][2] >= pool.chunks[k][1] - 1
                /\ k > 1 => pool.chunks[k][1] = pool.chunks[k - 1][2] + 1
    /\ pc = "trigger" =>
          /\ Len(log_likelihoods) = Len(theta)
          /\ Len(snrs) = Len(theta)
          /\ \A i \in 1..Len(theta) :
                /\ log_likelihoods[i] = Score(theta[i])[1]
                /\ snrs[i] = Score(theta[i])[2]

\* three rows on three workers, the last chunk finished first
C9_Witness ==
    /\ pc = "trigger"
    /\ args.num_processes = 3
    /\ Len(theta) = 3
    /\ pool.order = <<3, 1, 2>>
    /\ snrs[1] # snrs[3]
    /\ snrs = <<Score(theta[1])[2], Score(theta[2])[2], Score(theta[3])[2]>>

----------------------------------------------------------------------------
(* dingo/core/nn/nsf.py: the builders of the flow transform.               *)
(*                                                                         *)
(* A transform is a record [kind, features, mask, parts]: kind names the   *)
(* nflows class, mask is the coupling mask (1: the feature is transformed, *)
(* 0: it is held fixed and conditions the spline), parts the members of a  *)
(* CompositeTransform.  The permutation drawn by RandomPermutation, the    *)
(* weights and the hyperparameters other than base_transform_type (kept at *)
(* their defaults) are not represented.                                    *)

MaxFlowSteps == 3
MaxParamDim == 4

NoTransform == [kind |-> "none", features |-> 0, mask |-> << >>, parts |-> << >>]

Transform(kind, features, mask, parts) ==
    [kind |-> kind, features |-> features, mask |-> mask, parts |-> parts]

CompositeTransform(parts) == Transform("CompositeTransform", 0, << >>, parts)

\* create_linear_transform (lines 17-32)
create_linear_transform(param_dim) ==
    CompositeTransform(<<Transform("RandomPermutation", param_dim, << >>, << >>),
                         Transform("LULinear", param_dim, << >>, << >>)>>)

\* nflows.utils.create_alternating_binary_mask as called at lines 101-102:
\* ones at the 0-based positions start, start + 2, ..., start = 0 if even
create_alternating_binary_mask(features, even) ==
    LET start == IF even THEN 0 ELSE 1
    IN  [j \in 1..features |-> IF (j - 1) % 2 = start THEN 1 ELSE 0]

\* the mask of lines 98-102 with the block index ignored
coupling_mask_fixed(i, param_dim) ==
    IF param_dim = 1
    THEN <<1>>
    ELSE create_alternating_binary_mask(param_dim, TRUE)

\* lines 98-102: the mask of coupling block i
coupling_mask(i, param_dim) ==
    IF param_dim = 1
    THEN <<1>>
    ELSE create_alternating_binary_mask(param_dim, i % 2 = 0)

Returned(value) == [raised |-> FALSE, value |-> value]
RaisedValueError == [raised |-> TRUE, value |-> NoTransform]

\* create_base_transform (lines 35-141)
create_base_transform(i, param_dim, base_transform_type) ==
    IF base_transform_type = "rq-coupling"
    THEN Returned(Transform("PiecewiseRationalQuadraticCouplingTransform",
                            param_dim, coupling_mask(i, param_dim), << >>))
    ELSE IF base_transform_type = "rq-autoregressive"
    THEN Returned(Transform(
             "MaskedPiecewiseRationalQuadraticAutoregressiveTransform",
             param_dim, << >>, << >>))
    ELSE RaisedValueError

\* the tags of lines 97 and 123, and two tags that are neither
TransformTypes == {"rq-coupling", "rq-autoregressive", "rq-spline", "coupling"}
Supported == {"rq-coupling", "rq-autoregressive"}

NoFlow ==
    [built |-> FALSE, transform |-> NoTransform, distribution |-> 0,
     embedding_net |-> "None", model_hyperparams |-> << >>]

\* a call of `call` with the arguments a: nothing built yet
NsfCall(call, a) ==
    [pc |-> call, call |-> call, args |-> a, i |-> 0, blocks |-> << >>,
     embedding_net |-> "None", distribution |-> 0,
     result |-> NoTransform, flow |-> NoFlow]

NsfArgs(i, num_flow_steps, param_dim, base_transform_type, builder) ==
    [i |-> i, num_flow_steps |-> num_flow_steps, param_dim |-> param_dim,
     base_transform_type |-> base_transform_type,
     embedding_net_builder |-> builder]

scanIdle == <<inputVars, gridVars, loopVars, iterVars, outVars, pool, pc>>

\* a direct call of create_base_transform (lines 95-141)
NsfCreateBaseTransform ==
    /\ nsf.pc = "create_base_transform"
    /\ LET r == create_base_transform(nsf.args.i, nsf.args.param_dim,
                                      nsf.args.base_transform_type)
       IN  nsf' = IF r.raised
                  THEN [nsf EXCEPT !.pc = "raised"]
                  ELSE [nsf EXCEPT !.pc = "returned", !.result = r.value]
    /\ UNCHANGED scanIdle

\* create_nsf_model, lines 257-266: the embedding network and the base
\* distribution, then the call of create_transform
NsfCreateNsfModel ==
    /\ nsf.pc = "create_nsf_model"
    /\ nsf' = [nsf EXCEPT
                 !.embedding_net =
                     IF nsf.args.embedding_net_builder = "None"
                     THEN "None" ELSE "embedding_net",
                 !.distribution = nsf.args.param_dim,
                 !.pc = "create_transform"]
    /\ UNCHANGED scanIdle

\* create_transform, lines 173-182: iteration i of the list comprehension;
\* an exception of create_base_transform leaves create_transform
NsfBlock ==
    /\ nsf.pc = "create_transform"
    /\ nsf.i < nsf.args.num_flow_steps
    /\ LET linear == create_linear_transform(nsf.args.param_dim)
           r == create_base_transform(nsf.i, nsf.args.param_dim,
                                      nsf.args.base_transform_type)
       IN  nsf' = IF r.raised
                  THEN [nsf EXCEPT !.pc = "raised"]
                  ELSE [nsf EXCEPT
                          !.blocks = Append(@, CompositeTransform(
                                                   <<linear, r.value>>)),
                          !.i = @ + 1]
    /\ UNCHANGED scanIdle

\* create_transform, lines 171-187: range(num_flow_steps) is exhausted; the
\* trailing linear transform is added and the composite returned
NsfReturnTransform ==
    /\ nsf.pc = "create_transform"
    /\ nsf.i >= nsf.args.num_flow_steps
    /\ nsf' = [nsf EXCEPT
                 !.result = CompositeTransform(
                     Append(nsf.blocks,
                            create_linear_transform(nsf.args.param_dim))),
                 !.pc = IF nsf.call = "create_nsf_model"
                        THEN "flow" ELSE "returned"]
    /\ UNCHANGED scanIdle

\* create_nsf_model, lines 267-280: the flow and its hyperparameter record
NsfFlow ==
    /\ nsf.pc = "flow"
    /\ nsf' = [nsf EXCEPT
                 !.flow = [built |-> TRUE,
                           transform |-> nsf.result,
                           distribution |-> nsf.distribution,
                           embedding_net |-> nsf.embedding_net,
                           model_hyperparams |->
                               <<nsf.args.param_dim, nsf.args.num_flow_steps,
                                 nsf.args.base_transform_type>>],
                 !.pc = "returned"]
    /\ UNCHANGED scanIdle

(* Every call of the three builders on the bounded inputs; the scan of     *)
(* chirp_mass_scan.py is not running.                                      *)
InitFlow ==
    /\ metadata = ExampleGridMetadata
    /\ overlap_factor = OfInt(ScanOverlap)
    /\ time_overlap_factor = OfInt(TimeOverlap)
    /\ args = DefaultArgs
    /\ event_file = DefaultEventFile
    /\ InitLocals
    /\ pc = "idle"
    /\ \E d \in 1..MaxParamDim, t \in TransformTypes :
          \/ \E i \in 0..MaxFlowSteps :
                nsf = NsfCall("create_base_transform", NsfArgs(i, 0, d, t, "None"))
          \/ \E n \in 0..MaxFlowSteps :
                nsf = NsfCall("create_transform", NsfArgs(0, n, d, t, "None"))
          \/ \E n \in 0..MaxFlowSteps, b \in {"None", "builder"} :
                nsf = NsfCall("create_nsf_model", NsfArgs(0, n, d, t, b))

NextFlow ==
    \/ NsfCreateBaseTransform
    \/ NsfCreateNsfModel
    \/ NsfBlock
    \/ NsfReturnTransform
    \/ NsfFlow

SpecFlow == InitFlow /\ [][NextFlow]_vars

FlowCalled == nsf.pc # "idle"
TagSupported == nsf.args.base_transform_type \in Supported
\* create_transform, called directly or by create_nsf_model, has returned
TransformBuilt ==
    /\ nsf.pc \in {"flow", "returned"}
    /\ nsf.call \in {"create_transform", "create_nsf_model"}

\* every call that reaches create_base_transform with an unsupported tag
\* raises: the direct call, and the builders once a block is asked for
TagCheckedPerBlock ==
    (FlowCalled /\ ~TagSupported
        /\ (nsf.call = "create_base_transform" \/ nsf.args.num_flow_steps >= 1))
    => /\ nsf.pc \notin {"flow", "returned"}
       /\ nsf.result = NoTransform
       /\ ~nsf.flow.built

(* C11: with a base_transform_type other than 'rq-coupling' and            *)
(* 'rq-autoregressive', whatever the number of flow steps, none of         *)
(* create_base_transform, create_transform and create_nsf_model returns:   *)
(* no transform and no model is ever built.                                *)
C11_Fatal ==
    (FlowCalled /\ ~TagSupported)
    => /\ nsf.pc \notin {"flow", "returned"}
       /\ nsf.result = NoTransform
       /\ ~nsf.flow.built

SplineKind ==
    IF nsf.args.base_transform_type = "rq-coupling"
    THEN "PiecewiseRationalQuadraticCouplingTransform"
    ELSE "MaskedPiecewiseRationalQuadraticAutoregressiveTransform"

IsLinear(t) == t = create_linear_transform(nsf.args.param_dim)

\* the members of the returned composite, the blocks opened up
Flat ==
    Concat([k \in 1..Len(nsf.result.parts) |->
               IF IsLinear(nsf.result.parts[k])
               THEN <<nsf.result.parts[k]>>
               ELSE nsf.result.parts[k].parts])

\* the spline transform of block i (0-based, as in range(num_flow_steps))
Spline(i) == nsf.result.parts[i + 1].parts[2]
Fixed(i) == {j \in 1..nsf.args.param_dim : Spline(i).mask[j] = 0}
Transformed(i) == {j \in 1..nsf.args.param_dim : Spline(i).mask[j] = 1}

\* linear, spline, linear, spline, ..., linear: num_flow_steps blocks of a
\* linear and a spline transform, then one trailing linear transform
Composition ==
    /\ nsf.result.kind = "CompositeTransform"
    /\ Len(nsf.result.parts) = nsf.args.num_flow_steps + 1
    /\ \A k \in 1..nsf.args.num_flow_steps :
          /\ nsf.result.parts[k].kind = "CompositeTransform"
          /\ Len(nsf.result.parts[k].parts) = 2
    /\ Len(Flat) = 2 * nsf.args.num_flow_steps + 1
    /\ \A k \in 1..Len(Flat) :
          IF k % 2 = 1
          THEN IsLinear(Flat[k])
          ELSE /\ Flat[k].kind = SplineKind
               /\ Flat[k].features = nsf.args.param_dim
               /\ Flat[k] = Spline((k \div 2) - 1)
    /\ Cardinality({k \in 1..Len(Flat) : IsLinear(Flat[k])})
          = nsf.args.num_flow_steps + 1

Complementary(i) ==
    /\ Fixed(i) = Transformed(i + 1)
    /\ Transformed(i) = Fixed(i + 1)

\* the claim as stated: complementary masks for every dimension d >= 1
C12_AsStated ==
    TransformBuilt =>
        /\ Composition
        /\ nsf.args.base_transform_type = "rq-coupling" =>
              \A i \in 0..(nsf.args.num_flow_steps - 2) : Complementary(i)

(* C12: create_transform returns, in order, num_flow_steps blocks of a     *)
(* linear transform followed by a spline transform, then one trailing      *)
(* linear transform (num_flow_steps + 1 linear transforms).  In coupling   *)
(* mode with d >= 2 the masks of consecutive blocks are complementary, so  *)
(* what block i holds fixed block i + 1 transforms and vice versa, and     *)
(* block 0 transforms the features 0, 2, 4, ...; with d = 1 the mask of    *)
(* every block is [1]: each block transforms the only feature and holds    *)
(* nothing fixed.                                                          *)
C12_Flow ==
    TransformBuilt =>
        /\ Composition
        /\ nsf.args.base_transform_type = "rq-coupling" =>
              IF nsf.args.param_dim >= 2
              THEN /\ \A i \in 0..(nsf.args.num_flow_steps - 2) : Complementary(i)
                   /\ nsf.args.num_flow_steps >= 1 =>
                         Transformed(0) = {j \in 1..nsf.args.param_dim : j % 2 = 1}
              ELSE \A i \in 0..(nsf.args.num_flow_steps - 1) :
                      Spline(i).mask = <<1>> /\ Fixed(i) = {}

\* three coupling blocks over three features, returned by create_nsf_model
C12_Witness ==
    /\ nsf.pc = "returned"
    /\ nsf.call = "create_nsf_model"
    /\ nsf.args.base_transform_type = "rq-coupling"
    /\ nsf.args.num_flow_steps = 3
    /\ nsf.args.param_dim = 3
    /\ nsf.flow.built
    /\ Len(nsf.flow.transform.parts) = 4
    /\ Spline(0).mask = <<1, 0, 1>>
    /\ Spline(1).mask = <<0, 1, 0>>
    /\ Spline(2).mask = <<1, 0, 1>>

====
